---- MODULE Spec2Model ----
(***************************************************************************)
(* State-machine model of the calibration parameter/instruction database   *)
(* and of the measurement data-processing chain of qiskit-ignis            *)
(* (qiskit/ignis/experiments/calibration).                                 *)
(*                                                                         *)
(*  - PulseParameterTable   (instruction_data/parameter_table.py)          *)
(*  - InstructionsDefinition (instruction_data/gate_and_schedules_...py)   *)
(*  - DataProcessingSteps / AnalysisStep (data_processing/*.py)            *)
(*                                                                         *)
(* Every component has its own specification (SpecTable, SpecScope,        *)
(* SpecChain); a specification leaves the variables of the other           *)
(* components at their constructed values.                                 *)
(***************************************************************************)
EXTENDS Integers, Sequences, FiniteSets, TLC

VARIABLES
    params_collection,      \* PulseParameterTable.__init__ argument: the rows given at construction
    parameter_collection,   \* PulseParameterTable._parameter_collection (rows in order)
    last,                   \* the last call on the table: its name, what it raised ("none" if it
                            \* returned) and its name, channel, status and pulse_shape arguments
    instructions,           \* InstructionsDefinition._instructions (rows in order)
    md5,                    \* the md5 digests computed so far, cut to 6 hex digits:
                            \* records [gate_name, qubits, ident, digest]
    returned,               \* the scope ids _add_schedule has returned: records
                            \* [gate_name, qubits, scope_id]
    scope_outcome,          \* the last _add_schedule call: its arguments and what became of it
    root_node,              \* DataProcessingSteps._root_node with its chain of children,
                            \* as the sequence of the nodes from the root on
    chain_last,             \* the last DataProcessingSteps.append: the node given and what
                            \* the call raised ("none" if it returned)
    schedule_outcome,       \* the last get_schedule call: its arguments, what it raised
                            \* ("none" if it returned) and the Play instructions of the
                            \* schedule it returned
    average,                \* DataProcessingSteps._average
    shots,                  \* DataProcessingSteps._shots (0 for None)
    requested_level,        \* the last DataProcessingSteps.meas_level call: what it raised
                            \* ("none" if it returned) and the level it returned
    parse_outcome,          \* a compiler.parse call: the tokens of its source, whether parse
                            \* has been called on it, what the call raised ("none" if it
                            \* returned) and the tree it returned
    job,                    \* the last BaseCalibrationExperiment.execute: what it raised,
                            \* whether backend.run was called, and the measurement level
                            \* and return type the job was assembled with
    fit_run                 \* the last Calibration1DAnalysis.run: the outcomes of its fits,
                            \* what it raised, self._result (by position of the series) and
                            \* the <<series, guess>> that were fitted

vars == <<params_collection, parameter_collection, last, instructions, md5, returned, scope_outcome,
          root_node, chain_last, schedule_outcome, fit_run,
          average, shots, job, requested_level, parse_outcome>>

tableVars == <<params_collection, parameter_collection, last>>
scopeVars == <<instructions, md5, returned, scope_outcome>>
chainVars == <<root_node, chain_last>>
compileVars == <<schedule_outcome>>
fitVars == <<fit_run>>
execVars == <<average, shots, job, requested_level>>
parseVars == <<parse_outcome>>

(***************************************************************************)
(* Bounds and input domains                                                *)
(***************************************************************************)
MaxRecords == 2                       \* rows that may be added to the parameter table

None == "None"                        \* Python None, where a string is expected
NaN == "NaN"                          \* pandas missing value, in a string column
NoValue == [none |-> TRUE]            \* Python None, where a parameter value is expected
NaNValue == [nan |-> TRUE]            \* pandas missing value, in the 'value' column

ScopeIds == {"global", "abc123"}      \* the reserved scope and one gate scope
ParamNames == {"amp", "duration", "shape"}
PulseNames == {"xp"}
CalGroups == {"default"}
Timestamps == {1, 2}                  \* pd.Timestamp values, ordered as the integers
TimestampInputs == Timestamps \cup {0}   \* 0: the argument timestamp=None
UnknownChannel == "u9"                \* a channel missing from the channel-qubit map

\* Parameter values are numbers with an integer part and, possibly, a
\* fractional part: [whole |-> 1, frac |-> TRUE] is a non-integer in (1, 2).
ParamValues == {[whole |-> 1, frac |-> TRUE], [whole |-> 2, frac |-> FALSE]}
\* The value of a 'shape' parameter is the name of a pulse shape.
ShapeValues == {[shape |-> "Gaussian"]}
ValuesOf(parameter_name) ==
    IF parameter_name = "shape" THEN ShapeValues ELSE ParamValues

(***************************************************************************)
(* types.py: validation status enum                                        *)
(***************************************************************************)
Validation == {"pass", "fail", "none"}
StatusInputs == Validation \cup {"bogus"}     \* strings a caller may pass

\* __init__: channel_qubit_map, a map from channel string to qubit tuple
channel_qubit_map == [c \in {"d0"} |-> <<0>>]

(***************************************************************************)
(* Helpers on row sequences                                                *)
(***************************************************************************)
Range(s) == {s[i] : i \in 1..Len(s)}

\* DataFrame.append(..., ignore_index=True): the row goes last and every
\* index label is renumbered 0..n-1
Reindex(rows) == [i \in 1..Len(rows) |-> [rows[i] EXCEPT !.index = i - 1]]

AppendRow(rows, row) == Reindex(Append(rows, row))

\* the selected positions (1-based) of a table, from i on, in table order
RECURSIVE Positions(_, _, _)
Positions(rows, selected, i) ==
    IF i > Len(rows) THEN <<>>
    ELSE IF i \in selected THEN <<i>> \o Positions(rows, selected, i + 1)
         ELSE Positions(rows, selected, i + 1)

NewRow(channel, pulse_name, calibration_group, scope_id, name, value, validation, timestamp, exp_id) ==
    [index |-> 0,
     qubits |-> channel_qubit_map[channel],
     channel |-> channel,
     pulse_name |-> pulse_name,
     calibration_group |-> calibration_group,
     scope_id |-> scope_id,
     name |-> name,
     value |-> value,
     validation |-> validation,
     timestamp |-> timestamp,
     exp_id |-> exp_id]

\* the row pandas creates when .at[] is assigned at a label that is missing:
\* only the assigned column is set
EnlargedRow(label, status) ==
    [index |-> label,
     qubits |-> <<>>, channel |-> NaN, pulse_name |-> NaN,
     calibration_group |-> NaN, scope_id |-> NaN, name |-> NaN,
     value |-> NaNValue, validation |-> status, timestamp |-> 0, exp_id |-> NaN]

(***************************************************************************)
(* PulseParameterTable._find_data: the positions of the matching rows.     *)
(* A filter that is None (or empty) is not applied.                        *)
(***************************************************************************)
_find_data(rows, channel, pulse_name, calibration_group, scope_id, name) ==
    LET Match(r) ==
            /\ (channel # None => r.channel = channel)
            /\ (pulse_name # None => r.pulse_name = pulse_name)
            /\ (calibration_group # None => r.calibration_group = calibration_group)
            /\ (scope_id # None => r.scope_id = scope_id)
            /\ (name # None => r.name = name)
    IN  Positions(rows, {i \in 1..Len(rows) : Match(rows[i])}, 1)

\* Series.idxmax over the 'timestamp' column of the selected rows: the first
\* position (in table order) that holds the greatest timestamp
idxmax(rows, sel) ==
    LET top == CHOOSE i \in Range(sel) :
                   \A j \in Range(sel) : rows[j].timestamp <= rows[i].timestamp
    IN  CHOOSE i \in Range(sel) :
            /\ rows[i].timestamp = rows[top].timestamp
            /\ \A j \in Range(sel) :
                   rows[j].timestamp = rows[top].timestamp => i <= j

\* int(pval): truncation to the integer part
int(v) == [v EXCEPT !.frac = FALSE]

(***************************************************************************)
(* PulseParameterTable.get_parameter                                       *)
(***************************************************************************)
\* variant: rows marked FAIL are not filtered out
ValidData_KeepsFail(rows, matched) == matched

ValidData(rows, matched) ==
    SelectSeq(matched, LAMBDA i : rows[i].validation # "fail")

GetLocal(rows, parameter_name, pulse_name, channel, scope_id, calibration_group) ==
    LET matched == _find_data(rows, channel, pulse_name, calibration_group,
                              scope_id, parameter_name)
        valid_data == ValidData(rows, matched)
    IN  IF Len(valid_data) = 0 THEN NoValue
        ELSE LET pval == rows[idxmax(rows, valid_data)].value
             IN  IF parameter_name = "duration" THEN int(pval) ELSE pval

\* variant: no retry under the global scope
get_parameter_NoFallback(rows, parameter_name, pulse_name, channel, scope_id, calibration_group) ==
    GetLocal(rows, parameter_name, pulse_name, channel, scope_id, calibration_group)

\* variant: the retry under the global scope is taken when no valid row is left
get_parameter_FallbackOnNoValid(rows, parameter_name, pulse_name, channel, scope_id, calibration_group) ==
    LET local == GetLocal(rows, parameter_name, pulse_name, channel, scope_id,
                          calibration_group)
    IN  IF local = NoValue /\ scope_id # "global"
        THEN GetLocal(rows, parameter_name, pulse_name, channel, "global",
                      calibration_group)
        ELSE local

get_parameter(rows, parameter_name, pulse_name, channel, scope_id, calibration_group) ==
    LET matched == _find_data(rows, channel, pulse_name, calibration_group,
                              scope_id, parameter_name)
    IN  IF Len(matched) = 0 /\ scope_id # "global"
        THEN GetLocal(rows, parameter_name, pulse_name, channel, "global",
                      calibration_group)
        ELSE GetLocal(rows, parameter_name, pulse_name, channel, scope_id,
                      calibration_group)

(***************************************************************************)
(* PulseParameterTable.set_pulse_shape, as a function of the rows: the     *)
(* exception it raises ("none" if it returns) and the rows it leaves       *)
(***************************************************************************)
ShapeOutcome(rows, pulse_name, channel, pulse_shape, scope_id, calibration_group, now) ==
    LET scope == IF scope_id = None THEN "global" ELSE scope_id
        existing_entry == _find_data(rows, channel, pulse_name, calibration_group,
                                     scope, "shape")
    IN  IF Len(existing_entry) > 0
        THEN [exc |-> "Exception", rows |-> rows]
        ELSE IF channel \notin DOMAIN channel_qubit_map
        THEN [exc |-> "KeyError", rows |-> rows]
        ELSE [exc |-> "none",
              rows |-> AppendRow(rows, NewRow(channel, pulse_name, calibration_group,
                                              scope, "shape", pulse_shape, "none",
                                              now, None))]

(***************************************************************************)
(* PulseParameterTable.set_parameter                                       *)
(***************************************************************************)
\* variant: a row of the same key is overwritten instead of a row appended
ParameterOutcome_Overwrite(rows, parameter_name, pulse_name, channel, value, scope_id, validation, timestamp, calibration_group, now) ==
    LET same == _find_data(rows, channel, pulse_name, calibration_group, scope_id,
                           parameter_name)
        row == NewRow(channel, pulse_name, calibration_group, scope_id,
                      parameter_name, value,
                      IF validation = None THEN "none" ELSE validation,
                      IF timestamp = 0 THEN now ELSE timestamp, None)
    IN  IF channel \notin DOMAIN channel_qubit_map
        THEN [exc |-> "KeyError", rows |-> rows]
        ELSE IF Len(same) > 0
        THEN [exc |-> "none",
              rows |-> [rows EXCEPT ![same[1]] = [row EXCEPT !.index = same[1] - 1]]]
        ELSE [exc |-> "none", rows |-> AppendRow(rows, row)]

ParameterOutcome(rows, parameter_name, pulse_name, channel, value, scope_id, validation, timestamp, calibration_group, now) ==
    LET shaped == IF parameter_name = "shape"
                  THEN ShapeOutcome(rows, pulse_name, channel, value, scope_id,
                                    calibration_group, now)
                  ELSE [exc |-> "none", rows |-> rows]
    IN  IF shaped.exc # "none" THEN shaped
        ELSE IF channel \notin DOMAIN channel_qubit_map
        THEN [exc |-> "KeyError", rows |-> shaped.rows]
        ELSE [exc |-> "none",
              rows |-> AppendRow(shaped.rows,
                          NewRow(channel, pulse_name, calibration_group, scope_id,
                                 parameter_name, value,
                                 IF validation = None THEN "none" ELSE validation,
                                 IF timestamp = 0 THEN now ELSE timestamp,
                                 None))]

set_parameter(parameter_name, pulse_name, channel, value, scope_id, validation, timestamp, calibration_group) ==
    \E now \in IF timestamp = 0 \/ parameter_name = "shape" THEN Timestamps ELSE {1} :
        LET out == ParameterOutcome(parameter_collection, parameter_name, pulse_name,
                                    channel, value, scope_id, validation, timestamp,
                                    calibration_group, now)
        IN  /\ Len(out.rows) <= Len(params_collection) + MaxRecords
            /\ parameter_collection' = out.rows
            /\ last' = [op |-> "set_parameter", exc |-> out.exc,
                        name |-> parameter_name, channel |-> channel, status |-> None, data_index |-> <<>>, pulse_shape |-> None]
            /\ UNCHANGED <<params_collection, scopeVars, chainVars, compileVars, fitVars, execVars, parseVars>>

set_pulse_shape(pulse_name, channel, pulse_shape, scope_id, calibration_group) ==
    \E now \in Timestamps :
        LET out == ShapeOutcome(parameter_collection, pulse_name, channel, pulse_shape,
                                scope_id, calibration_group, now)
        IN  /\ Len(out.rows) <= Len(params_collection) + MaxRecords
            /\ parameter_collection' = out.rows
            /\ last' = [op |-> "set_pulse_shape", exc |-> out.exc,
                        name |-> "shape", channel |-> channel, status |-> None, data_index |-> <<>>, pulse_shape |-> None]
            /\ UNCHANGED <<params_collection, scopeVars, chainVars, compileVars, fitVars, execVars, parseVars>>

(***************************************************************************)
(* PulseParameterTable.set_validation_status                               *)
(***************************************************************************)
\* variant: the status string is stored without being validated
StatusOutcome_NoStatusCheck(rows, data_index, status) ==
    IF data_index > Len(rows) - 1
    THEN [exc |-> "CalExpError", rows |-> rows]
    ELSE IF \E i \in 1..Len(rows) : rows[i].index = data_index
    THEN [exc |-> "none",
          rows |-> [i \in 1..Len(rows) |->
                       IF rows[i].index = data_index
                       THEN [rows[i] EXCEPT !.validation = status]
                       ELSE rows[i]]]
    ELSE [exc |-> "none", rows |-> Append(rows, EnlargedRow(data_index, status))]

\* variant: the status is written to the whole 'validation' column
StatusOutcome_WholeColumn(rows, data_index, status) ==
    IF status \notin Validation
    THEN [exc |-> "CalExpError", rows |-> rows]
    ELSE IF data_index > Len(rows) - 1
    THEN [exc |-> "CalExpError", rows |-> rows]
    ELSE IF \E i \in 1..Len(rows) : rows[i].index = data_index
    THEN [exc |-> "none",
          rows |-> [i \in 1..Len(rows) |-> [rows[i] EXCEPT !.validation = status]]]
    ELSE [exc |-> "none", rows |-> Append(rows, EnlargedRow(data_index, status))]

StatusOutcome(rows, data_index, status) ==
    IF status \notin Validation
    THEN [exc |-> "CalExpError", rows |-> rows]
    ELSE IF data_index > Len(rows) - 1
    THEN [exc |-> "CalExpError", rows |-> rows]
    ELSE IF \E i \in 1..Len(rows) : rows[i].index = data_index
    THEN [exc |-> "none",
          rows |-> [i \in 1..Len(rows) |->
                       IF rows[i].index = data_index
                       THEN [rows[i] EXCEPT !.validation = status]
                       ELSE rows[i]]]
    ELSE \* DataFrame.at[label, col] = v with a label that is missing: the frame
         \* is enlarged by a row carrying that label
         [exc |-> "none", rows |-> Append(rows, EnlargedRow(data_index, status))]

set_validation_status(data_index, status) ==
    LET out == StatusOutcome(parameter_collection, data_index, status)
    IN  /\ Len(out.rows) <= Len(params_collection) + MaxRecords
        /\ parameter_collection' = out.rows
        /\ last' = [op |-> "set_validation_status", exc |-> out.exc,
                    name |-> None, channel |-> None, status |-> status, data_index |-> <<data_index>>,
                    pulse_shape |-> None]
        /\ UNCHANGED <<params_collection, scopeVars, chainVars, compileVars, fitVars, execVars, parseVars>>

\* indices a caller may pass: one below the first row up to one past the last
IndexInputs == -1..(Len(params_collection) + MaxRecords)

SetParameter ==
    \E parameter_name \in ParamNames, pulse_name \in PulseNames,
       channel \in DOMAIN channel_qubit_map, scope_id \in ScopeIds,
       validation \in Validation, timestamp \in Timestamps,
       calibration_group \in CalGroups :
        \E value \in ValuesOf(parameter_name) :
            set_parameter(parameter_name, pulse_name, channel, value, scope_id,
                          validation, timestamp, calibration_group)

\* the same call with validation and timestamp left at their defaults (None)
SetParameterDefaults ==
    \E parameter_name \in ParamNames, pulse_name \in PulseNames,
       channel \in DOMAIN channel_qubit_map, scope_id \in ScopeIds,
       calibration_group \in CalGroups :
        \E value \in ValuesOf(parameter_name) :
            set_parameter(parameter_name, pulse_name, channel, value, scope_id,
                          None, 0, calibration_group)

\* the same call with a channel that the channel-qubit map does not hold
SetParameterUnknownChannel ==
    \E parameter_name \in ParamNames, pulse_name \in PulseNames,
       scope_id \in ScopeIds, calibration_group \in CalGroups :
        \E value \in ValuesOf(parameter_name) :
            set_parameter(parameter_name, pulse_name, UnknownChannel, value, scope_id,
                          None, 0, calibration_group)

SetPulseShape ==
    \E pulse_name \in PulseNames,
       channel \in DOMAIN channel_qubit_map \cup {UnknownChannel},
       pulse_shape \in ShapeValues, scope_id \in ScopeIds \cup {None},
       calibration_group \in CalGroups :
        set_pulse_shape(pulse_name, channel, pulse_shape, scope_id, calibration_group)

SetValidationStatus ==
    \E data_index \in IndexInputs, status \in StatusInputs :
        set_validation_status(data_index, status)

\* __init__ without params_collection: an empty frame
TableInit ==
    /\ params_collection = <<>>
    /\ parameter_collection = <<>>
    /\ last = [op |-> None, exc |-> "none", name |-> None, channel |-> None,
               status |-> None, data_index |-> <<>>, pulse_shape |-> None]

\* InstructionsDefinition.__init__ without instructions: an empty frame
ScopeInit ==
    /\ instructions = <<>>
    /\ md5 = {}
    /\ returned = {}
    /\ scope_outcome = [kind |-> None]

\* DataProcessingSteps.__init__: no root node
ChainInit ==
    /\ root_node = <<>>
    /\ chain_last = [raised |-> "none", node |-> [class |-> None, arg |-> None]]

\* __init__ with params_collection: a frame that holds one earlier calibration
\* of the global amplitude (timestamp 0 is earlier than every later write)
SeedRow ==
    [NewRow("d0", "xp", "default", "global", "amp", [whole |-> 2, frac |-> FALSE],
            "pass", 0, None) EXCEPT !.index = 0]

TableInitSeeded ==
    /\ params_collection = <<SeedRow>>
    /\ parameter_collection = <<SeedRow>>
    /\ last = [op |-> None, exc |-> "none", name |-> None, channel |-> None,
               status |-> None, data_index |-> <<>>, pulse_shape |-> None]

\* no get_schedule call has been made
CompileInit ==
    schedule_outcome = [raised |-> "none", gate_name |-> None, qubits |-> <<>>,
                        free_parameter_names |-> {}, calibration_group |-> None,
                        plays |-> <<>>]

\* Calibration1DAnalysis.__init__: run has not been called
FitInit ==
    fit_run = [fits |-> <<>>, raised |-> "none", _result |-> <<>>, fitted |-> {}]

\* compiler.parse has not been called
ParseInit ==
    parse_outcome = [tokens |-> <<>>, called |-> FALSE, raised |-> "none", tree |-> None]

\* DataProcessingSteps() of an experiment that has not been executed
ExecInit ==
    /\ average = TRUE
    /\ shots = 0
    /\ requested_level = [raised |-> "none", level |-> None]
    /\ job = [raised |-> "none", submitted |-> FALSE, meas_level |-> None,
              meas_return |-> None]

Init == TableInit /\ ScopeInit /\ ChainInit /\ CompileInit /\ FitInit /\ ExecInit /\ ParseInit

NextTable ==
    \/ SetParameter
    \/ SetParameterDefaults
    \/ SetParameterUnknownChannel
    \/ SetPulseShape
    \/ SetValidationStatus

SpecTable == Init /\ [][NextTable]_vars

InitSeeded == TableInitSeeded /\ ScopeInit /\ ChainInit /\ CompileInit /\ FitInit /\ ExecInit /\ ParseInit

\* the tables that set_parameter and set_validation_status reach from a
\* table constructed with an earlier calibration
NextLookup ==
    \/ SetParameter
    \/ SetValidationStatus

SpecLookup == InitSeeded /\ [][NextLookup]_vars

(***************************************************************************)
(* InstructionsDefinition: the registry of gate schedules                  *)
(* (instruction_data/gate_and_schedules_definition.py)                     *)
(***************************************************************************)
MaxIdent == 1                         \* greatest disambiguator tried by one call

GateNames == {"xp", "cr"}
QubitTuples == {<<0>>, <<0, 1>>}
\* the (signature, sched_code) arguments of a registration
Schedules == {[signature |-> <<>>, program |-> "%xp.d0"],
              [signature |-> <<"amp">>, program |-> "%cr(0,1)"]}
\* hexdigest()[:6] of an md5 digest: a few of the 16^6 ids
HashIds == {"0a1b2c", "3d4e5f", "6789ab"}

\* index of the registry row that carries a scope id (0 if there is none)
RowOf(rows, scope_id) ==
    IF \E i \in 1..Len(rows) : rows[i].index = scope_id
    THEN CHOOSE i \in 1..Len(rows) : rows[i].index = scope_id
    ELSE 0

\* The digests of '{gate_name}.{qubits}:{ident}' for ident = 0..MaxIdent that
\* agree with the digests computed so far: md5 is a function of its input.
Digests(gate_name, qubits) ==
    {d \in [0..MaxIdent -> HashIds] :
        \A m \in md5 :
            (m.gate_name = gate_name /\ m.qubits = qubits /\ m.ident <= MaxIdent)
                => d[m.ident] = m.digest}

(***************************************************************************)
(* InstructionsDefinition._deduplicate_scope_id, from disambiguator ident  *)
(* on, with the digests d: the id returned and the last disambiguator      *)
(* used; returns = FALSE while the loop has not ended within MaxIdent      *)
(***************************************************************************)
\* variant: the first candidate id is returned without looking at its owner
RECURSIVE _deduplicate_scope_id_NoOwnerCheck(_, _, _, _, _)
_deduplicate_scope_id_NoOwnerCheck(rows, gate_name, qubits, d, ident) ==
    [returns |-> TRUE, scope_id |-> d[ident], ident |-> ident]

RECURSIVE _deduplicate_scope_id(_, _, _, _, _)
_deduplicate_scope_id(rows, gate_name, qubits, d, ident) ==
    IF ident > MaxIdent
    THEN [returns |-> FALSE, scope_id |-> None, ident |-> MaxIdent]
    ELSE LET temp_id == d[ident]
             at == RowOf(rows, temp_id)
         IN  IF at # 0
             THEN IF rows[at].gate_name = gate_name /\ rows[at].qubits = qubits
                  THEN \* same entry
                       [returns |-> TRUE, scope_id |-> rows[at].index, ident |-> ident]
                  ELSE \* hash collision
                       _deduplicate_scope_id(rows, gate_name, qubits, d, ident + 1)
             ELSE \* unassigned id
                  [returns |-> TRUE, scope_id |-> temp_id, ident |-> ident]

\* every id there is belongs to another (gate_name, qubits): no disambiguator
\* can end the loop
NoIdLeft(rows, gate_name, qubits) ==
    \A h \in HashIds :
        /\ RowOf(rows, h) # 0
        /\ ~ (rows[RowOf(rows, h)].gate_name = gate_name
              /\ rows[RowOf(rows, h)].qubits = qubits)

(***************************************************************************)
(* InstructionsDefinition._add_schedule, given the id: the rows it leaves. *)
(* write_through: whether the assignments to .loc[scope_id].signature and  *)
(* .program reach the frame (.loc[] hands out a view of a single-block     *)
(* frame and a copy otherwise).                                            *)
(***************************************************************************)
\* variant: a row is appended also when the id is in the index
StoreSchedule_AlwaysAppends(rows, scope_id, gate_name, qubits, signature, sched_code, write_through) ==
    Append(rows, [index |-> scope_id, gate_name |-> gate_name, qubits |-> qubits,
                  signature |-> signature, program |-> sched_code])

StoreSchedule(rows, scope_id, gate_name, qubits, signature, sched_code, write_through) ==
    IF RowOf(rows, scope_id) # 0
    THEN \* overwrite old entry
         IF write_through
         THEN [rows EXCEPT ![RowOf(rows, scope_id)].signature = signature,
                           ![RowOf(rows, scope_id)].program = sched_code]
         ELSE rows
    ELSE \* add new entry
         Append(rows, [index |-> scope_id, gate_name |-> gate_name, qubits |-> qubits,
                       signature |-> signature, program |-> sched_code])

_add_schedule(gate_name, qubits, signature, sched_code) ==
    /\ scope_outcome.kind # "never returns"
    /\ IF NoIdLeft(instructions, gate_name, qubits)
       THEN /\ scope_outcome' = [kind |-> "never returns", gate_name |-> gate_name,
                                 qubits |-> qubits, scope_id |-> None,
                                 signature |-> signature, sched_code |-> sched_code]
            /\ UNCHANGED <<instructions, md5, returned>>
       ELSE \E d \in Digests(gate_name, qubits), write_through \in BOOLEAN :
              LET found == _deduplicate_scope_id(instructions, gate_name, qubits, d, 0)
              IN  /\ found.returns
                  \* digests the call did not compute, and a write that did not
                  \* happen, are not drawn twice
                  /\ \A i \in (found.ident + 1)..MaxIdent : d[i] = d[found.ident]
                  /\ RowOf(instructions, found.scope_id) = 0 => write_through
                  /\ md5' = md5 \cup {[gate_name |-> gate_name, qubits |-> qubits,
                                       ident |-> i, digest |-> d[i]] : i \in 0..found.ident}
                  /\ instructions' = StoreSchedule(instructions, found.scope_id, gate_name,
                                                   qubits, signature, sched_code,
                                                   write_through)
                  /\ returned' = returned \cup {[gate_name |-> gate_name, qubits |-> qubits,
                                                 scope_id |-> found.scope_id]}
                  /\ scope_outcome' =
                         [kind |-> IF RowOf(instructions, found.scope_id) # 0
                                   THEN "overwritten" ELSE "added",
                          gate_name |-> gate_name, qubits |-> qubits,
                          scope_id |-> found.scope_id,
                          signature |-> signature, sched_code |-> sched_code]
    /\ UNCHANGED <<tableVars, chainVars, compileVars, fitVars, execVars, parseVars>>

AddSchedule ==
    \E gate_name \in GateNames, qubits \in QubitTuples, schedule \in Schedules :
        _add_schedule(gate_name, qubits, schedule.signature, schedule.program)

NextScope == AddSchedule

SpecScope == Init /\ [][NextScope]_vars

(***************************************************************************)
(* data_processing/nodes.py: the node classes with the classes their       *)
(* prev_node decorator names                                               *)
(***************************************************************************)
NodeClasses ==
    {"SystemKernel", "SystemDiscriminator", "RealNumbers", "ImagNumbers", "Population"}

prev_node(class) ==
    CASE class = "SystemKernel" -> {}
      [] class = "SystemDiscriminator" -> {"SystemKernel"}
      [] class = "RealNumbers" -> {"SystemKernel"}
      [] class = "ImagNumbers" -> {"SystemKernel"}
      [] class = "Population" -> {"SystemDiscriminator"}

\* the constructor argument of a node: the name of a kernel or discriminator,
\* the scale of an IQ post-processing node; Population takes none
NodeArgs(class) ==
    CASE class \in {"SystemKernel", "SystemDiscriminator"} -> {None, "backend"}
      [] class \in {"RealNumbers", "ImagNumbers"} -> {"1.0", "0.5"}
      [] class = "Population" -> {None}

(***************************************************************************)
(* AnalysisStep.append, called on the node at position i of the chain: the *)
(* exception raised ("none" if it returns) and the chain it leaves         *)
(***************************************************************************)
\* variant: the class of the last node is not compared with prev_node
RECURSIVE AnalysisStep_append_NoTypeCheck(_, _, _)
AnalysisStep_append_NoTypeCheck(chain, i, component) ==
    IF prev_node(component.class) = {}
    THEN [raised |-> "CalExpError", chain |-> chain]
    ELSE IF i = Len(chain)
    THEN [raised |-> "none", chain |-> Append(chain, component)]
    ELSE AnalysisStep_append_NoTypeCheck(chain, i + 1, component)

\* variant: the node is attached before the class of the last node is checked
RECURSIVE AnalysisStep_append_AttachesFirst(_, _, _)
AnalysisStep_append_AttachesFirst(chain, i, component) ==
    IF prev_node(component.class) = {}
    THEN [raised |-> "CalExpError", chain |-> chain]
    ELSE IF i = Len(chain)
    THEN IF chain[i].class \in prev_node(component.class)
         THEN [raised |-> "none", chain |-> Append(chain, component)]
         ELSE [raised |-> "CalExpError", chain |-> Append(chain, component)]
    ELSE AnalysisStep_append_AttachesFirst(chain, i + 1, component)

RECURSIVE AnalysisStep_append(_, _, _)
AnalysisStep_append(chain, i, component) ==
    IF prev_node(component.class) = {}
    THEN [raised |-> "CalExpError", chain |-> chain]
    ELSE IF i = Len(chain)
    THEN \* self._child is None
         IF chain[i].class \in prev_node(component.class)
         THEN [raised |-> "none", chain |-> Append(chain, component)]
         ELSE [raised |-> "CalExpError", chain |-> chain]
    ELSE AnalysisStep_append(chain, i + 1, component)

(***************************************************************************)
(* DataProcessingSteps.append                                              *)
(***************************************************************************)
DataProcessingSteps_append(node) ==
    LET out == IF root_node # <<>>
               THEN AnalysisStep_append(root_node, 1, node)
               ELSE [raised |-> "none", chain |-> <<node>>]
    IN  /\ root_node' = out.chain
        /\ chain_last' = [raised |-> out.raised, node |-> node]
        /\ UNCHANGED <<tableVars, scopeVars, compileVars, fitVars, execVars, parseVars>>

AppendNode ==
    \E class \in NodeClasses :
        \E arg \in NodeArgs(class) :
            DataProcessingSteps_append([class |-> class, arg |-> arg])

NextChain == AppendNode

SpecChain == Init /\ [][NextChain]_vars

(***************************************************************************)
(* compiler.py and InstructionsDefinition.get_schedule: the programs of    *)
(* the registry and their compilation to schedules                         *)
(***************************************************************************)
RecursionLimit == 3                   \* get_schedule calls the interpreter's stack can nest
MaxTableRows == 3                     \* rows of a table handed to the constructor

NoQubits == <<>>                      \* the argument qubits=None, and a node without qubits

\* ParametricPulseShapes: the names of the enum
ParametricPulseShapes == {"gaus", "gaus_sq", "drag", "constant"}

\* utils.get_pulse_parameters: the parameter names of a parametric pulse class
get_pulse_parameters(shape) ==
    CASE shape = "constant" -> {"duration", "amp"}
      [] shape = "gaus" -> {"duration", "amp", "sigma"}
      [] shape = "gaus_sq" -> {"duration", "amp", "sigma", "width"}
      [] shape = "drag" -> {"duration", "amp", "sigma", "beta"}

\* PulseParameterTable.get_full_name: '<pulse_name>.<channel>.<scope_id>.<name>'
get_full_name(parameter_name, pulse_name, channel, scope_id, calibration_group) ==
    <<pulse_name, channel, scope_id, parameter_name>>

\* the sources the registry holds
DSLPrograms == {"%xp.d0", "%xp(0)", "%cr(0,1)"}

\* parse: the children of the root ScheduleBlock of a source, one node per
\* token; '%name.channel' is a PULSE token, '%name(qubits)' a REFERENCE token
parse(source) ==
    CASE source = "%xp.d0" ->
             <<[class |-> "PulseInst", name |-> "xp", channel |-> "d0", qubits |-> NoQubits]>>
      [] source = "%xp(0)" ->
             <<[class |-> "Reference", name |-> "xp", channel |-> None, qubits |-> <<0>>]>>
      [] source = "%cr(0,1)" ->
             <<[class |-> "Reference", name |-> "cr", channel |-> None, qubits |-> <<0, 1>>]>>

\* InstructionsDefinition._find_schedules: the positions of the rows of a
\* gate name and qubits
_find_schedules(rows, gate_name, qubits) ==
    Positions(rows, {i \in 1..Len(rows) : /\ gate_name # None => rows[i].gate_name = gate_name
                                          /\ rows[i].qubits = qubits}, 1)

\* InstructionsDefinition.get_scope_id
get_scope_id(rows, gate_name, qubits) ==
    IF gate_name = None \/ qubits = NoQubits
    THEN [raised |-> "none", scope_id |-> "global"]
    ELSE LET matched_entries == _find_schedules(rows, gate_name, qubits)
         IN  IF Len(matched_entries) > 1
             THEN [raised |-> "Exception", scope_id |-> None]
             ELSE IF Len(matched_entries) = 0
             THEN \* matched_entries.iloc[0] of an empty frame
                  [raised |-> "IndexError", scope_id |-> None]
             ELSE [raised |-> "none", scope_id |-> rows[matched_entries[1]].index]

(***************************************************************************)
(* NodeVisitor.visit_PulseInst: the Play instruction of a pulse leaf, or    *)
(* the exception raised. parametric_duration: whether the pulse library    *)
(* in use accepts a Parameter as the duration of a pulse.                  *)
(***************************************************************************)
\* variant: the free parameters are not looked at
visit_PulseInst_BindsFree(table, node, scope_id, calibration_group, free_parameters, parametric_duration) ==
    LET shape == get_parameter(table, "shape", node.name, node.channel, scope_id, calibration_group)
    IN  IF shape \notin {[shape |-> s] : s \in ParametricPulseShapes}
        THEN [raised |-> "KeyError", plays |-> <<>>]
        ELSE LET kwargs ==
                   [pname \in get_pulse_parameters(shape.shape) |->
                      LET composite_name == get_full_name(pname, node.name, node.channel, scope_id, calibration_group)
                          param_val == get_parameter(table, pname, node.name, node.channel, scope_id, calibration_group)
                      IN  IF param_val # NoValue
                          THEN param_val
                          ELSE [symbol |-> composite_name]]
             IN  IF "symbol" \in DOMAIN kwargs["duration"] /\ ~ parametric_duration
                 THEN [raised |-> "PulseError", plays |-> <<>>]
                 ELSE [raised |-> "none",
                       plays |-> <<[name |-> <<node.name, node.channel, scope_id>>,
                                    shape |-> shape.shape, kwargs |-> kwargs,
                                    channel |-> node.channel,
                                    calibration_group |-> calibration_group]>>]

visit_PulseInst(table, node, scope_id, calibration_group, free_parameters, parametric_duration) ==
    LET shape == get_parameter(table, "shape", node.name, node.channel, scope_id, calibration_group)
    IN  IF shape \notin {[shape |-> s] : s \in ParametricPulseShapes}
        THEN \* self._inst_def.parametric_shapes[shape]
             [raised |-> "KeyError", plays |-> <<>>]
        ELSE LET kwargs ==
                   [pname \in get_pulse_parameters(shape.shape) |->
                      LET composite_name == get_full_name(pname, node.name, node.channel, scope_id, calibration_group)
                          param_val == get_parameter(table, pname, node.name, node.channel, scope_id, calibration_group)
                      IN  IF param_val # NoValue /\ composite_name \notin free_parameters
                          THEN param_val
                          ELSE [symbol |-> composite_name]]
             IN  IF "symbol" \in DOMAIN kwargs["duration"] /\ ~ parametric_duration
                 THEN [raised |-> "PulseError", plays |-> <<>>]
                 ELSE [raised |-> "none",
                       plays |-> <<[name |-> <<node.name, node.channel, scope_id>>,
                                    shape |-> shape.shape, kwargs |-> kwargs,
                                    channel |-> node.channel,
                                    calibration_group |-> calibration_group]>>]

(***************************************************************************)
(* InstructionsDefinition.get_schedule with NodeVisitor.__call__, and      *)
(* NodeVisitor.visit_ScheduleBlock / visit_Reference: the exception raised *)
(* ("none" if the call returns) and the Play instructions of the schedule. *)
(* c: the registry, the table, the free parameter names and                *)
(* parametric_duration; depth: the get_schedule calls on the stack.        *)
(***************************************************************************)
RECURSIVE get_schedule_outcome(_, _, _, _, _)
RECURSIVE visit_ScheduleBlock(_, _, _, _, _, _)

\* the children from position i on, in order
visit_ScheduleBlock(c, children, i, scope_id, calibration_group, depth) ==
    IF i > Len(children)
    THEN [raised |-> "none", plays |-> <<>>]
    ELSE LET node == children[i]
             first == IF node.class = "PulseInst"
                      THEN visit_PulseInst(c.table, node, scope_id, calibration_group,
                                           c.free_parameters, c.parametric_duration)
                      ELSE \* visit_Reference: the calibration group is not handed on
                           get_schedule_outcome(c, node.name, node.qubits, "default",
                                                depth + 1)
         IN  IF first.raised # "none"
             THEN first
             ELSE LET rest == visit_ScheduleBlock(c, children, i + 1, scope_id,
                                                  calibration_group, depth)
                  IN  IF rest.raised # "none"
                      THEN rest
                      ELSE [raised |-> "none", plays |-> first.plays \o rest.plays]

get_schedule_outcome(c, gate_name, qubits, calibration_group, depth) ==
    IF depth > RecursionLimit
    THEN [raised |-> "RecursionError", plays |-> <<>>]
    ELSE LET found == get_scope_id(c.registry, gate_name, qubits)
         IN  IF found.raised # "none"
             THEN [raised |-> found.raised, plays |-> <<>>]
             ELSE IF RowOf(c.registry, found.scope_id) = 0
             THEN \* self._instructions.loc[scope_id]
                  [raised |-> "KeyError", plays |-> <<>>]
             ELSE LET source == c.registry[RowOf(c.registry, found.scope_id)].program
                  IN  IF source \notin DSLPrograms
                      THEN \* Invalid syntax
                           [raised |-> "Exception", plays |-> <<>>]
                      ELSE visit_ScheduleBlock(c, parse(source), 1, found.scope_id,
                                               calibration_group, depth)

get_schedule(gate_name, qubits, free_parameter_names, calibration_group) ==
    \E parametric_duration \in BOOLEAN :
        LET out == get_schedule_outcome(
                       [registry |-> instructions, table |-> parameter_collection,
                        free_parameters |-> free_parameter_names,
                        parametric_duration |-> parametric_duration],
                       gate_name, qubits, calibration_group, 1)
        IN  /\ schedule_outcome' =
                   [raised |-> out.raised, gate_name |-> gate_name, qubits |-> qubits,
                    free_parameter_names |-> free_parameter_names,
                    calibration_group |-> calibration_group, plays |-> out.plays]
            /\ UNCHANGED <<tableVars, scopeVars, chainVars, fitVars, execVars, parseVars>>

\* full names a caller may leave free (free_parameter_names=None is the
\* empty set: the visitor replaces it by [])
FreeNames == {<<"xp", "d0", "0a1b2c", "amp">>, <<"xp", "d0", "0a1b2c", "duration">>}
FreeInputs == SUBSET FreeNames

GetSchedule ==
    \E gate_name \in GateNames \cup {None}, qubits \in QubitTuples,
       free_parameter_names \in FreeInputs :
        get_schedule(gate_name, qubits, free_parameter_names, "default")

\* The registries of two gates, as _add_schedule leaves them, and the tables
\* handed to the constructor: up to MaxTableRows rows of the pulse xp on d0.
CompileRegistries ==
    {<<[index |-> "0a1b2c", gate_name |-> "xp", qubits |-> <<0>>,
        signature |-> <<>>, program |-> p],
       [index |-> "3d4e5f", gate_name |-> "cr", qubits |-> <<0, 1>>,
        signature |-> <<>>, program |-> q]>> : p, q \in DSLPrograms}

CompileRows ==
    {NewRow("d0", "xp", "default", "global", "shape", [shape |-> "constant"], "none", 1, None),
     NewRow("d0", "xp", "default", "global", "amp", [whole |-> 2, frac |-> FALSE], "pass", 1, None),
     NewRow("d0", "xp", "default", "0a1b2c", "amp", [whole |-> 1, frac |-> TRUE], "pass", 2, None),
     NewRow("d0", "xp", "default", "0a1b2c", "amp", [whole |-> 1, frac |-> TRUE], "fail", 2, None),
     NewRow("d0", "xp", "default", "global", "duration", [whole |-> 1, frac |-> TRUE], "none", 1, None)}

CompileTables ==
    {Reindex(t) : t \in {u \in UNION {[1..n -> CompileRows] : n \in 0..MaxTableRows} :
                            \A i, j \in DOMAIN u : u[i] = u[j] => i = j}}

CompileStateInit ==
    /\ params_collection \in CompileTables
    /\ parameter_collection = params_collection
    /\ last = [op |-> None, exc |-> "none", name |-> None, channel |-> None,
               status |-> None, data_index |-> <<>>, pulse_shape |-> None]
    /\ instructions \in CompileRegistries
    /\ md5 = {[gate_name |-> instructions[i].gate_name, qubits |-> instructions[i].qubits,
               ident |-> 0, digest |-> instructions[i].index] : i \in 1..2}
    /\ returned = {[gate_name |-> instructions[i].gate_name, qubits |-> instructions[i].qubits,
                    scope_id |-> instructions[i].index] : i \in 1..2}
    /\ scope_outcome = [kind |-> "added", gate_name |-> "cr", qubits |-> <<0, 1>>,
                        scope_id |-> "3d4e5f", signature |-> <<>>,
                        sched_code |-> instructions[2].program]

InitCompile == CompileStateInit /\ ChainInit /\ CompileInit /\ FitInit /\ ExecInit /\ ParseInit

NextCompile == GetSchedule

SpecCompile == InitCompile /\ [][NextCompile]_vars

(***************************************************************************)
(* get_schedule on a table with two calibration groups and a pulse of      *)
(* shape gaus_sq, whose parameters include width                           *)
(***************************************************************************)
CompileGroups == {"default", "hpc"}

GroupRows ==
    {NewRow("d0", "xp", "default", "global", "shape", [shape |-> "gaus_sq"], "none", 1, None),
     NewRow("d0", "xp", "default", "global", "duration", [whole |-> 2, frac |-> FALSE], "none", 1, None),
     NewRow("d0", "xp", "default", "global", "width", [whole |-> 1, frac |-> TRUE], "none", 1, None),
     NewRow("d0", "xp", "hpc", "global", "shape", [shape |-> "constant"], "none", 1, None),
     NewRow("d0", "xp", "hpc", "global", "duration", [whole |-> 1, frac |-> FALSE], "none", 2, None)}

GroupTables ==
    {Reindex(t) : t \in {u \in UNION {[1..n -> GroupRows] : n \in 0..MaxTableRows} :
                            \A i, j \in DOMAIN u : u[i] = u[j] => i = j}}

\* xp on qubit 0 plays a pulse, cr on qubits 0, 1 refers to xp
GroupStateInit ==
    /\ params_collection \in GroupTables
    /\ parameter_collection = params_collection
    /\ last = [op |-> None, exc |-> "none", name |-> None, channel |-> None,
               status |-> None, data_index |-> <<>>, pulse_shape |-> None]
    /\ instructions = <<[index |-> "0a1b2c", gate_name |-> "xp", qubits |-> <<0>>,
                         signature |-> <<>>, program |-> "%xp.d0"],
                        [index |-> "3d4e5f", gate_name |-> "cr", qubits |-> <<0, 1>>,
                         signature |-> <<>>, program |-> "%xp(0)"]>>
    /\ md5 = {[gate_name |-> instructions[i].gate_name, qubits |-> instructions[i].qubits,
               ident |-> 0, digest |-> instructions[i].index] : i \in 1..2}
    /\ returned = {[gate_name |-> instructions[i].gate_name, qubits |-> instructions[i].qubits,
                    scope_id |-> instructions[i].index] : i \in 1..2}
    /\ scope_outcome = [kind |-> "added", gate_name |-> "cr", qubits |-> <<0, 1>>,
                        scope_id |-> "3d4e5f", signature |-> <<>>,
                        sched_code |-> instructions[2].program]

InitGroups == GroupStateInit /\ ChainInit /\ CompileInit /\ FitInit /\ ExecInit /\ ParseInit

\* the full names of the duration and the width of the pulse
GroupFreeNames == {<<"xp", "d0", "0a1b2c", "duration">>, <<"xp", "d0", "0a1b2c", "width">>}

GetScheduleOfGroup ==
    \E gate_name \in GateNames, qubits \in QubitTuples,
       free_parameter_names \in SUBSET GroupFreeNames,
       calibration_group \in CompileGroups :
        get_schedule(gate_name, qubits, free_parameter_names, calibration_group)

NextGroups == GetScheduleOfGroup

SpecGroups == InitGroups /\ [][NextGroups]_vars

(***************************************************************************)
(* compiler.py: _tokenizer, _parse_node and parse on the tokens of a       *)
(* source. A token is its type with the groups of its match; a node of the *)
(* tree is a ScheduleBlock with its context_type and children, or a leaf.  *)
(***************************************************************************)
MaxTokens == 4                        \* tokens of a source

\* the tokens _tokenizer yields: the three context enters, the context exit,
\* a pulse and a reference (no source matches the FRAME pattern, which asks
\* for characters after the end of the string)
TokenSet ==
    {[type |-> "CONTEXT_ENTER", pos |-> p, name |-> None, channel |-> None, qubits |-> None] :
        p \in {"left", "right", "seq"}}
    \cup {[type |-> "CONTEXT_EXIT", pos |-> None, name |-> None, channel |-> None, qubits |-> None],
          [type |-> "PULSE", pos |-> None, name |-> "xp", channel |-> "d0", qubits |-> None],
          [type |-> "REFERENCE", pos |-> None, name |-> "cr", channel |-> None, qubits |-> "0,1"]}

\* tuple(map(int, data['qubits'].split(',')))
QubitsOfString(qubits) ==
    CASE qubits = "0" -> <<0>>
      [] qubits = "1" -> <<1>>
      [] qubits = "0,1" -> <<0, 1>>

ScheduleBlock(context_type, children) ==
    [class |-> "ScheduleBlock", name |-> None, channel |-> None, qubits |-> NoQubits,
     context_type |-> context_type, children |-> children]

_parse_node(token) ==
    IF token.type = "PULSE"
    THEN [class |-> "PulseInst", name |-> token.name, channel |-> token.channel,
          qubits |-> NoQubits, context_type |-> None, children |-> <<>>]
    ELSE [class |-> "Reference", name |-> token.name, channel |-> None,
          qubits |-> QubitsOfString(token.qubits), context_type |-> None, children |-> <<>>]

\* a block with a child appended to its children
WithChild(block, child) == [block EXCEPT !.children = Append(@, child)]

\* variant: a context exit without an open context is passed over
RECURSIVE ParseTokens_SkipsStrayExit(_, _, _, _)
ParseTokens_SkipsStrayExit(tokens, i, schedule, stack) ==
    IF i > Len(tokens)
    THEN [raised |-> "none", tree |-> schedule]
    ELSE LET token == tokens[i]
             top == Len(stack)
         IN  IF token.type \in {"PULSE", "REFERENCE", "FRAME"}
             THEN IF stack # <<>>
                  THEN ParseTokens_SkipsStrayExit(tokens, i + 1, schedule,
                           [stack EXCEPT ![top] = WithChild(@, _parse_node(token))])
                  ELSE ParseTokens_SkipsStrayExit(tokens, i + 1,
                           WithChild(schedule, _parse_node(token)), stack)
             ELSE IF token.type = "CONTEXT_ENTER"
             THEN ParseTokens_SkipsStrayExit(tokens, i + 1, schedule,
                      Append(stack, ScheduleBlock(token.pos, <<>>)))
             ELSE IF stack = <<>>
             THEN ParseTokens_SkipsStrayExit(tokens, i + 1, schedule, stack)
             ELSE LET current_context == stack[top]
                      rest == SubSeq(stack, 1, top - 1)
                  IN  IF rest # <<>>
                      THEN ParseTokens_SkipsStrayExit(tokens, i + 1, schedule,
                               [rest EXCEPT ![top - 1] = WithChild(@, current_context)])
                      ELSE ParseTokens_SkipsStrayExit(tokens, i + 1,
                               WithChild(schedule, current_context), rest)

\* variant: a closed context is always attached to the root block
RECURSIVE ParseTokens_ClosesToRoot(_, _, _, _)
ParseTokens_ClosesToRoot(tokens, i, schedule, stack) ==
    IF i > Len(tokens)
    THEN [raised |-> "none", tree |-> schedule]
    ELSE LET token == tokens[i]
             top == Len(stack)
         IN  IF token.type \in {"PULSE", "REFERENCE", "FRAME"}
             THEN IF stack # <<>>
                  THEN ParseTokens_ClosesToRoot(tokens, i + 1, schedule,
                           [stack EXCEPT ![top] = WithChild(@, _parse_node(token))])
                  ELSE ParseTokens_ClosesToRoot(tokens, i + 1,
                           WithChild(schedule, _parse_node(token)), stack)
             ELSE IF token.type = "CONTEXT_ENTER"
             THEN ParseTokens_ClosesToRoot(tokens, i + 1, schedule,
                      Append(stack, ScheduleBlock(token.pos, <<>>)))
             ELSE IF stack = <<>>
             THEN [raised |-> "Exception", tree |-> None]
             ELSE ParseTokens_ClosesToRoot(tokens, i + 1,
                      WithChild(schedule, stack[top]), SubSeq(stack, 1, top - 1))

\* the loop of parse over the tokens from position i on, with the root
\* block and the stack of open contexts: the exception raised ("none" if
\* parse returns) and the tree returned
RECURSIVE ParseTokens(_, _, _, _)
ParseTokens(tokens, i, schedule, stack) ==
    IF i > Len(tokens)
    THEN [raised |-> "none", tree |-> schedule]
    ELSE LET token == tokens[i]
             top == Len(stack)
         IN  IF token.type \in {"PULSE", "REFERENCE", "FRAME"}
             THEN \* add instruction to parent schedule block
                  IF stack # <<>>
                  THEN ParseTokens(tokens, i + 1, schedule,
                                   [stack EXCEPT ![top] = WithChild(@, _parse_node(token))])
                  ELSE ParseTokens(tokens, i + 1, WithChild(schedule, _parse_node(token)),
                                   stack)
             ELSE IF token.type = "CONTEXT_ENTER"
             THEN \* create child schedule block and add this to stack
                  ParseTokens(tokens, i + 1, schedule,
                              Append(stack, ScheduleBlock(token.pos, <<>>)))
             ELSE IF token.type = "CONTEXT_EXIT"
             THEN IF stack = <<>>
                  THEN \* No context enter found.
                       [raised |-> "Exception", tree |-> None]
                  ELSE \* close child schedule block and append this to parent block
                       LET current_context == stack[top]
                           rest == SubSeq(stack, 1, top - 1)
                       IN  IF rest # <<>>
                           THEN ParseTokens(tokens, i + 1, schedule,
                                    [rest EXCEPT ![top - 1] = WithChild(@, current_context)])
                           ELSE ParseTokens(tokens, i + 1,
                                    WithChild(schedule, current_context), rest)
             ELSE [raised |-> "Exception", tree |-> None]

\* parse of the source
parse_source ==
    LET out == ParseTokens(parse_outcome.tokens, 1, ScheduleBlock("left", <<>>), <<>>)
    IN  /\ ~ parse_outcome.called
        /\ parse_outcome' = [tokens |-> parse_outcome.tokens, called |-> TRUE,
                             raised |-> out.raised, tree |-> out.tree]
        /\ UNCHANGED <<tableVars, scopeVars, chainVars, compileVars, fitVars, execVars>>

\* the sources of up to MaxTokens tokens, none of them parsed yet
Sources == UNION {[1..n -> TokenSet] : n \in 0..MaxTokens}

InitParse ==
    /\ TableInit /\ ScopeInit /\ ChainInit /\ CompileInit /\ FitInit /\ ExecInit
    /\ parse_outcome \in {[tokens |-> tokens, called |-> FALSE, raised |-> "none",
                           tree |-> None] : tokens \in Sources}

NextParse == parse_source

SpecParse == InitParse /\ [][NextParse]_vars

(***************************************************************************)
(* InstructionsDefinition.define_pulse: the exception it raises ("none" if *)
(* it returns) and the rows of the parameter table it leaves               *)
(***************************************************************************)
\* the loop over parameters.items(), from entry i on
RECURSIVE SaveParameters(_, _, _, _, _, _, _, _)
SaveParameters(rows, parameters, i, pulse_name, channel, scope_id, calibration_group, now) ==
    IF i > Len(parameters)
    THEN [exc |-> "none", rows |-> rows]
    ELSE LET set == ParameterOutcome(rows, parameters[i].pname, pulse_name, channel,
                                     parameters[i].value, scope_id, None, 0,
                                     calibration_group, now)
         IN  IF set.exc # "none"
             THEN set
             ELSE SaveParameters(set.rows, parameters, i + 1, pulse_name, channel,
                                 scope_id, calibration_group, now)

\* variant: the shape is written before it is checked
DefinePulseOutcome_ChecksLate(rows, parameters, pulse_name, channel, pulse_shape, gate_name, qubits, calibration_group, now) ==
    LET found == get_scope_id(instructions, gate_name, qubits)
        shaped == ShapeOutcome(rows, pulse_name, channel, [shape |-> pulse_shape],
                               found.scope_id, calibration_group, now[1])
    IN  IF found.raised # "none"
        THEN [exc |-> found.raised, rows |-> rows]
        ELSE IF shaped.exc # "none"
        THEN shaped
        ELSE IF pulse_shape \notin ParametricPulseShapes
        THEN [exc |-> "Exception", rows |-> shaped.rows]
        ELSE SaveParameters(shaped.rows, parameters, 1, pulse_name, channel,
                            found.scope_id, calibration_group, now[2])

DefinePulseOutcome(rows, parameters, pulse_name, channel, pulse_shape, gate_name, qubits, calibration_group, now) ==
    LET found == get_scope_id(instructions, gate_name, qubits)
    IN  IF found.raised # "none"
        THEN [exc |-> found.raised, rows |-> rows]
        ELSE IF pulse_shape \notin ParametricPulseShapes
        THEN \* Pulse shape is not defined
             [exc |-> "Exception", rows |-> rows]
        ELSE LET shaped == ShapeOutcome(rows, pulse_name, channel,
                                        [shape |-> pulse_shape], found.scope_id,
                                        calibration_group, now[1])
             IN  IF shaped.exc # "none"
                 THEN shaped
                 ELSE SaveParameters(shaped.rows, parameters, 1, pulse_name, channel,
                                     found.scope_id, calibration_group, now[2])

\* now: the clock readings of the shape row and of the parameter rows
define_pulse(parameters, pulse_name, channel, pulse_shape, gate_name, qubits, calibration_group) ==
    \E now \in {t \in Timestamps \X Timestamps : t[1] <= t[2]} :
        LET out == DefinePulseOutcome(parameter_collection, parameters, pulse_name,
                                      channel, pulse_shape, gate_name, qubits,
                                      calibration_group, now)
        IN  /\ Len(out.rows) <= Len(params_collection) + MaxRecords
            /\ parameter_collection' = out.rows
            /\ last' = [op |-> "define_pulse", exc |-> out.exc, name |-> None,
                        channel |-> channel, status |-> None, data_index |-> <<>>,
                        pulse_shape |-> pulse_shape]
            /\ UNCHANGED <<params_collection, scopeVars, chainVars, compileVars, fitVars, execVars, parseVars>>

\* the arguments of define_pulse: no parameter, an amplitude or a 'shape'
\* entry; a shape of ParametricPulseShapes or another name; the global scope
\* (gate_name=None), a registered gate or one that is not registered
ParametersInputs ==
    {<<>>, <<[pname |-> "amp", value |-> [whole |-> 1, frac |-> TRUE]]>>,
     <<[pname |-> "shape", value |-> [shape |-> "constant"]]>>}
PulseShapeInputs == {"constant", "Gaussian"}
GateInputs ==
    {[gate_name |-> None, qubits |-> NoQubits], [gate_name |-> "xp", qubits |-> <<0>>],
     [gate_name |-> "xp", qubits |-> <<0, 1>>]}

DefinePulse ==
    \E parameters \in ParametersInputs, pulse_name \in PulseNames,
       channel \in DOMAIN channel_qubit_map \cup {UnknownChannel},
       pulse_shape \in PulseShapeInputs, gate \in GateInputs,
       calibration_group \in CalGroups :
        define_pulse(parameters, pulse_name, channel, pulse_shape, gate.gate_name,
                     gate.qubits, calibration_group)

\* an InstructionsDefinition with two registered gates and an empty table
PulseStateInit ==
    /\ TableInit
    /\ instructions = <<[index |-> "0a1b2c", gate_name |-> "xp", qubits |-> <<0>>,
                         signature |-> <<>>, program |-> "%xp.d0"],
                        [index |-> "3d4e5f", gate_name |-> "cr", qubits |-> <<0, 1>>,
                         signature |-> <<>>, program |-> "%xp(0)"]>>
    /\ md5 = {[gate_name |-> instructions[i].gate_name, qubits |-> instructions[i].qubits,
               ident |-> 0, digest |-> instructions[i].index] : i \in 1..2}
    /\ returned = {[gate_name |-> instructions[i].gate_name, qubits |-> instructions[i].qubits,
                    scope_id |-> instructions[i].index] : i \in 1..2}
    /\ scope_outcome = [kind |-> "added", gate_name |-> "cr", qubits |-> <<0, 1>>,
                        scope_id |-> "3d4e5f", signature |-> <<>>,
                        sched_code |-> instructions[2].program]

InitPulse == PulseStateInit /\ ChainInit /\ CompileInit /\ FitInit /\ ExecInit /\ ParseInit

NextPulse ==
    \/ DefinePulse
    \/ SetPulseShape
    \/ SetParameterDefaults

SpecPulse == InitPulse /\ [][NextPulse]_vars

(***************************************************************************)
(* analysis/cal_1d_analysis.py: Calibration1DAnalysis.run                  *)
(***************************************************************************)
MaxSeries == 2                        \* data series of one run
MaxGuesses == 2                       \* initial guesses of one series

\* reduced chi-squared values of converged fits (_calculate_chisq)
ChiSquares == {1, 2}

\* optimize.curve_fit for one initial guess: it returns optimal parameters
\* (of which the reduced chi-squared is kept here), raises RuntimeError when
\* the fit does not converge, or raises another exception (ValueError)
FitOutcomes ==
    {[kind |-> "converged", chisq |-> c] : c \in ChiSquares}
        \cup {[kind |-> "RuntimeError", chisq |-> 0], [kind |-> "ValueError", chisq |-> 0]}

\* the run's input: for every series, in the order of yvals.items(), the
\* outcome of the fit of each of its initial guesses
FitInputs ==
    UNION {[1..n -> UNION {[1..m -> FitOutcomes] : m \in 0..MaxGuesses}] : n \in 0..MaxSeries}

\* types.FitResult of the fit of a series from its guess-th initial guess
FitResult(series, guess, chisq) == [series |-> series, guess |-> guess, chisq |-> chisq]

(***************************************************************************)
(* The loop over the initial guesses of series s, from guess j on, entered *)
(* with the local variable result: the exception that leaves the loop      *)
(* ("none" if it ends), result, and the guesses that were fitted           *)
(***************************************************************************)
RECURSIVE FitSeries(_, _, _, _)
FitSeries(outcomes, s, j, result) ==
    IF j > Len(outcomes)
    THEN [raised |-> "none", result |-> result, fitted |-> {}]
    ELSE LET this == {<<s, j>>}
         IN  IF outcomes[j].kind = "ValueError"
             THEN \* not caught
                  [raised |-> "ValueError", result |-> result, fitted |-> this]
             ELSE IF outcomes[j].kind = "RuntimeError"
             THEN \* except RuntimeError: pass
                  LET rest == FitSeries(outcomes, s, j + 1, result)
                  IN  [rest EXCEPT !.fitted = @ \cup this]
             ELSE LET better == IF result = NoValue THEN TRUE
                                ELSE result.chisq > outcomes[j].chisq
                      rest == FitSeries(outcomes, s, j + 1,
                                        IF better THEN FitResult(s, j, outcomes[j].chisq)
                                        ELSE result)
                  IN  [rest EXCEPT !.fitted = @ \cup this]

(***************************************************************************)
(* The loop over the series, from series s on: result is the local         *)
(* variable, set to None before the loop and not inside it; _result are    *)
(* the entries of self._result written so far                              *)
(***************************************************************************)
RECURSIVE RunSeries(_, _, _, _)
RunSeries(fits, s, result, _result) ==
    IF s > Len(fits)
    THEN [raised |-> "none", _result |-> _result, fitted |-> {}]
    ELSE LET inner == FitSeries(fits[s], s, 1, result)
         IN  IF inner.raised # "none"
             THEN [raised |-> inner.raised, _result |-> _result, fitted |-> inner.fitted]
             ELSE LET rest == RunSeries(fits, s + 1, inner.result,
                                        Append(_result, inner.result))
                  IN  [rest EXCEPT !.fitted = @ \cup inner.fitted]

\* Calibration1DAnalysis.run
run(fits) ==
    LET out == RunSeries(fits, 1, NoValue, <<>>)
    IN  /\ fit_run' = [fits |-> fits, raised |-> out.raised, _result |-> out._result,
                       fitted |-> out.fitted]
        /\ UNCHANGED <<tableVars, scopeVars, chainVars, compileVars, execVars, parseVars>>

Run == \E fits \in FitInputs : run(fits)

NextFit == Run

SpecFit == Init /\ [][NextFit]_vars

(***************************************************************************)
(* DataProcessingSteps.meas_level / meas_return (interface.py) and         *)
(* BaseCalibrationExperiment.execute (cal_base_experiment.py)              *)
(***************************************************************************)
DefaultShots == 1024

\* the node_type that the decorator of a node class sets
node_type(class) ==
    CASE class = "SystemKernel" -> "KERNEL"
      [] class = "SystemDiscriminator" -> "DISCRIMINATOR"
      [] class \in {"RealNumbers", "ImagNumbers"} -> "IQDATA"
      [] class = "Population" -> "COUNTS"

\* DataProcessingSteps.check_kernel / check_discriminator, called on the
\* node at position i of a chain: the position of the first node of the
\* type from there on, 0 for None. Called on None (no root node) the
\* attribute access node.node_type raises AttributeError.
RECURSIVE check_type(_, _, _)
check_type(chain, i, type) ==
    IF node_type(chain[i].class) = type
    THEN i
    ELSE IF i = Len(chain) THEN 0 ELSE check_type(chain, i + 1, type)

\* DataProcessingSteps.meas_level; every KERNEL node is a SystemKernel and
\* every DISCRIMINATOR node a SystemDiscriminator
meas_level(chain) ==
    IF chain = <<>>
    THEN [raised |-> "AttributeError", level |-> None]
    ELSE LET kernel == check_type(chain, 1, "KERNEL")
         IN  IF kernel # 0
             THEN IF check_type(chain, 1, "DISCRIMINATOR") # 0
                  THEN [raised |-> "none", level |-> "CLASSIFIED"]
                  ELSE [raised |-> "none", level |-> "KERNELED"]
             ELSE [raised |-> "none", level |-> "RAW"]

\* DataProcessingSteps.meas_return
meas_return(chain, avg) ==
    IF chain = <<>>
    THEN [raised |-> "AttributeError", return |-> None]
    ELSE IF check_type(chain, 1, "DISCRIMINATOR") # 0
    THEN [raised |-> "none", return |-> "SINGLE"]
    ELSE [raised |-> "none", return |-> IF avg THEN "AVERAGE" ELSE "SINGLE"]

\* BaseCalibrationExperiment.execute without a shots argument: the shots of
\* the processing steps are set, then the arguments of assemble are
\* evaluated, then the job is handed to backend.run
execute ==
    LET level == meas_level(root_node)
        return == meas_return(root_node, average)
        raised == IF level.raised # "none" THEN level.raised ELSE return.raised
    IN  /\ shots' = DefaultShots
        /\ job' = IF raised # "none"
                  THEN [raised |-> raised, submitted |-> FALSE, meas_level |-> None,
                        meas_return |-> None]
                  ELSE [raised |-> "none", submitted |-> TRUE, meas_level |-> level.level,
                        meas_return |-> return.return]
        /\ UNCHANGED <<average, requested_level, tableVars, scopeVars, chainVars, compileVars,
                       fitVars, parseVars>>

Execute == execute

\* a call of DataProcessingSteps.meas_level on the chain as it is
MeasLevel ==
    /\ requested_level' = meas_level(root_node)
    /\ UNCHANGED <<average, shots, job, tableVars, scopeVars, chainVars, compileVars,
                   fitVars, parseVars>>

\* DataProcessingSteps(average=...) in an experiment that has not been run
InitExecute ==
    /\ TableInit /\ ScopeInit /\ ChainInit /\ CompileInit /\ FitInit /\ ParseInit
    /\ average \in BOOLEAN
    /\ shots = 0
    /\ requested_level = [raised |-> "none", level |-> None]
    /\ job = [raised |-> "none", submitted |-> FALSE, meas_level |-> None,
              meas_return |-> None]

NextExecute ==
    \/ AppendNode
    \/ Execute
    \/ MeasLevel

SpecExecute == InitExecute /\ [][NextExecute]_vars

(***************************************************************************)
(* Claims on the parameter table                                           *)
(***************************************************************************)
table == parameter_collection

LookupKeys ==
    [parameter_name : ParamNames, pulse_name : PulseNames,
     channel : DOMAIN channel_qubit_map, calibration_group : CalGroups]

Get(k, scope_id) ==
    get_parameter(table, k.parameter_name, k.pulse_name, k.channel, scope_id,
                  k.calibration_group)

\* rows of a key under a scope, those of them that are not FAIL, and those of
\* the latter that carry the greatest timestamp
Matching(k, scope_id) ==
    {i \in 1..Len(table) :
        /\ table[i].name = k.parameter_name
        /\ table[i].pulse_name = k.pulse_name
        /\ table[i].channel = k.channel
        /\ table[i].calibration_group = k.calibration_group
        /\ table[i].scope_id = scope_id}

NonFail(k, scope_id) == {i \in Matching(k, scope_id) : table[i].validation # "fail"}

Latest(k, scope_id) ==
    {i \in NonFail(k, scope_id) :
        \A j \in NonFail(k, scope_id) : table[j].timestamp <= table[i].timestamp}

\* a stored value as a read reports it: 'duration' loses its fractional part
AsRead(k, v) ==
    IF k.parameter_name = "duration" THEN [whole |-> v.whole, frac |-> FALSE] ELSE v

\* C1 (as claimed): whenever a key has a non-FAIL row under a scope,
\* get_parameter returns the stored value of a non-FAIL row of that key with
\* the greatest timestamp.
C1_LatestWinsStoredValue ==
    \A k \in LookupKeys, scope_id \in ScopeIds :
        NonFail(k, scope_id) # {} =>
            \E i \in Latest(k, scope_id) : Get(k, scope_id) = table[i].value

\* C1 (amended): whenever a key has a non-FAIL row under a scope, get_parameter
\* returns the value of a non-FAIL row of that key with the greatest timestamp,
\* truncated to an integer when the parameter name is 'duration'.
C1_LatestWins ==
    \A k \in LookupKeys, scope_id \in ScopeIds :
        NonFail(k, scope_id) # {} =>
            \E i \in Latest(k, scope_id) : Get(k, scope_id) = AsRead(k, table[i].value)

\* three rows of one key, t1 < t2 < t3 with statuses PASS, PASS, FAIL and
\* different values at t1 and t2: the read yields the t2 value
C1_Witness ==
    \E k \in LookupKeys, scope_id \in ScopeIds :
        \E a, b, c \in Matching(k, scope_id) :
            /\ table[a].timestamp < table[b].timestamp
            /\ table[b].timestamp < table[c].timestamp
            /\ table[a].validation = "pass"
            /\ table[b].validation = "pass"
            /\ table[c].validation = "fail"
            /\ table[a].value # table[b].value
            /\ Get(k, scope_id) = table[b].value

\* C2: a gate scope without any row of a key reads the global scope's latest
\* non-FAIL value of that key; a gate scope with a non-FAIL row of the key reads
\* its own latest non-FAIL value although the global scope has one too.
C2_StoreFallback ==
    \A k \in LookupKeys, scope_id \in ScopeIds \ {"global"} :
        /\ (Matching(k, scope_id) = {} /\ NonFail(k, "global") # {}) =>
               \E i \in Latest(k, "global") :
                   Get(k, scope_id) = AsRead(k, table[i].value)
        /\ (NonFail(k, scope_id) # {} /\ NonFail(k, "global") # {}) =>
               \E i \in Latest(k, scope_id) :
                   Get(k, scope_id) = AsRead(k, table[i].value)

\* both cases in one table: 'amp' is read from the global scope for a gate
\* scope that has no 'amp' row, and another key is read from the gate scope
\* although the global row of that key is newer and holds another value
C2_Witness ==
    \E scope_id \in ScopeIds \ {"global"} :
        /\ \E k \in LookupKeys :
               /\ Matching(k, scope_id) = {}
               /\ \E g \in NonFail(k, "global") : Get(k, scope_id) = table[g].value
        /\ \E k \in LookupKeys :
               \E i \in NonFail(k, scope_id), g \in NonFail(k, "global") :
                   /\ table[g].timestamp > table[i].timestamp
                   /\ AsRead(k, table[g].value) # AsRead(k, table[i].value)
                   /\ Get(k, scope_id) = AsRead(k, table[i].value)

\* the case of C3: a gate scope whose table of a key are all FAIL while the
\* global scope holds a non-FAIL row of the key
AllFailed(k, scope_id) ==
    /\ Matching(k, scope_id) # {}
    /\ NonFail(k, scope_id) = {}
    /\ NonFail(k, "global") # {}

\* C3 (as claimed): when every row of a key under a gate scope is FAIL,
\* get_parameter returns the global scope's latest non-FAIL value.
C3_AllFailFallsBack ==
    \A k \in LookupKeys, scope_id \in ScopeIds \ {"global"} :
        AllFailed(k, scope_id) =>
            \E i \in Latest(k, "global") : Get(k, scope_id) = AsRead(k, table[i].value)

\* C3 (amended): when every row of a key under a gate scope is FAIL,
\* get_parameter returns None, although the global scope holds a non-FAIL row.
C3_AllFailReturnsNone ==
    \A k \in LookupKeys, scope_id \in ScopeIds \ {"global"} :
        AllFailed(k, scope_id) => Get(k, scope_id) = NoValue

C3_Witness ==
    \E k \in LookupKeys, scope_id \in ScopeIds \ {"global"} :
        /\ AllFailed(k, scope_id)
        /\ Get(k, scope_id) = NoValue
        /\ Get(k, "global") # NoValue

\* rows written by set_parameter or set_pulse_shape keep index and fields
WrittenRowsKept ==
    /\ Len(parameter_collection') >= Len(parameter_collection)
    /\ \A i \in 1..Len(parameter_collection) :
           parameter_collection[i].name # NaN =>
               parameter_collection'[i] = parameter_collection[i]

SameShapeKey(r, q) ==
    /\ r.name = "shape"
    /\ q.name = "shape"
    /\ r.channel = q.channel
    /\ r.pulse_name = q.pulse_name
    /\ r.calibration_group = q.calibration_group
    /\ r.scope_id = q.scope_id

Grown(n) == Len(parameter_collection') = Len(parameter_collection) + n

C5_BadIndexRejected ==
    [][last'.op = "set_validation_status" =>
          \A data_index \in IndexInputs, status \in StatusInputs :
              ( /\ (data_index < 0 \/ data_index >= Len(parameter_collection))
                /\ set_validation_status(data_index, status) )
              => (last'.exc # "none" /\ parameter_collection' = parameter_collection)]_vars

\* C6: set_validation_status with a status outside {pass, fail, none} fails
\* with CalExpError and leaves the table as it was.
C6_BadStatusRejected ==
    [][(last'.op = "set_validation_status" /\ last'.status \notin Validation) =>
          (last'.exc = "CalExpError" /\ parameter_collection' = parameter_collection)]_vars

\* an invalid status was passed while the table held table, and was rejected
C6_Witness ==
    /\ last.op = "set_validation_status"
    /\ last.status \notin Validation
    /\ last.exc = "CalExpError"
    /\ Len(table) > 0

(***************************************************************************)
(* Claims on the data-processing chain                                     *)
(***************************************************************************)
\* C7 (as claimed): appending a SystemDiscriminator to an empty chain raises
\* and leaves the chain empty; appending a SystemDiscriminator to a chain that
\* consists of a SystemKernel succeeds and puts it after the kernel.
C7_ChainTypeSafety ==
    [][chain_last'.node.class = "SystemDiscriminator" =>
          /\ root_node = <<>> =>
                 (chain_last'.raised # "none" /\ root_node' = <<>>)
          /\ (Len(root_node) = 1 /\ root_node[1].class = "SystemKernel") =>
                 /\ chain_last'.raised = "none"
                 /\ root_node' = Append(root_node, chain_last'.node)]_vars

\* C8: in every chain each node that has a predecessor stands directly after
\* a node of a class it allows: a discriminator and the IQ post-processing
\* nodes after a kernel, Population after a discriminator, a kernel after none.
C8_ChainLinks ==
    \A i \in 2..Len(root_node) :
        LET class == root_node[i].class
            before == root_node[i - 1].class
        IN  /\ class # "SystemKernel"
            /\ class = "SystemDiscriminator" => before = "SystemKernel"
            /\ class \in {"RealNumbers", "ImagNumbers"} => before = "SystemKernel"
            /\ class = "Population" => before = "SystemDiscriminator"

\* the longest chain, kernel - discriminator - Population, has been built and
\* a further append has been rejected
C8_Witness ==
    /\ Len(root_node) = 3
    /\ root_node[1].class = "SystemKernel"
    /\ root_node[2].class = "SystemDiscriminator"
    /\ root_node[3].class = "Population"
    /\ chain_last.raised = "CalExpError"

(***************************************************************************)
(* Claims on the registry of gate schedules                                *)
(***************************************************************************)
SamePair(a, b) == a.gate_name = b.gate_name /\ a.qubits = b.qubits

\* the registry rows are owned one to one, and every id handed to a caller
\* is the id of the row of the pair it was handed out for
ScopeOwnership ==
    /\ \A i, j \in 1..Len(instructions) :
           (instructions[i].index = instructions[j].index
            \/ SamePair(instructions[i], instructions[j])) => i = j
    /\ \A r \in returned :
           \E i \in 1..Len(instructions) :
               /\ instructions[i].index = r.scope_id
               /\ SamePair(instructions[i], r)

\* a registration leaves the id and the owner of every row there is
ScopeStable ==
    /\ Len(instructions') >= Len(instructions)
    /\ \A i \in 1..Len(instructions) :
           /\ instructions'[i].index = instructions[i].index
           /\ SamePair(instructions'[i], instructions[i])

\* C9: whatever ids the digests collide on, no two (gate_name, qubits) own
\* the same scope_id, no (gate_name, qubits) owns two rows of the registry,
\* and a later registration never changes the scope_id of a row.
C9_ScopeUnique == []ScopeOwnership /\ [][ScopeStable]_vars

\* two pairs whose first digests are equal are both registered, the second
\* under the digest of a greater disambiguator
C9_Witness ==
    \E m, n \in md5 :
        /\ m.ident = 0 /\ n.ident = 0
        /\ m.digest = n.digest
        /\ ~ SamePair(m, n)
        /\ \E i, j \in 1..Len(instructions) :
               /\ SamePair(instructions[i], m) /\ instructions[i].index = m.digest
               /\ SamePair(instructions[j], n) /\ instructions[j].index # n.digest
               /\ [gate_name |-> n.gate_name, qubits |-> n.qubits, ident |-> 1,
                   digest |-> instructions[j].index] \in md5

\* the call of _add_schedule that a step is, once it has returned
Resolved == scope_outcome'.kind \in {"added", "overwritten"}

\* C10: a call for a (gate_name, qubits) returns the scope_id every earlier
\* call for it returned; if the pair is registered the call adds no row; and
\* it returns an id other than every id returned for the same gate_name with
\* other qubits.
C10_ScopeDeterminism ==
    [][Resolved =>
          /\ \A r \in returned :
                 SamePair(r, scope_outcome') => scope_outcome'.scope_id = r.scope_id
          /\ (\E i \in 1..Len(instructions) : SamePair(instructions[i], scope_outcome'))
                 => Len(instructions') = Len(instructions)
          /\ \A r \in returned :
                 (r.gate_name = scope_outcome'.gate_name
                  /\ r.qubits # scope_outcome'.qubits)
                     => scope_outcome'.scope_id # r.scope_id]_vars

\* a registered pair has been resolved again, while the same gate is also
\* registered for other qubits
C10_Witness ==
    /\ scope_outcome.kind = "overwritten"
    /\ \E i, j \in 1..Len(instructions) :
           /\ SamePair(instructions[i], scope_outcome)
           /\ instructions[i].index = scope_outcome.scope_id
           /\ instructions[j].gate_name = scope_outcome.gate_name
           /\ instructions[j].qubits # scope_outcome.qubits

(***************************************************************************)
(* Claims on the compilation of schedule programs                          *)
(***************************************************************************)
\* C11 (as claimed): get_schedule of a program that refers to itself, directly
\* or through another program, is rejected because the cycle is found: no
\* call recurses until the interpreter's stack is used up.
C11_CycleRejected == schedule_outcome.raised # "RecursionError"

(***************************************************************************)
(* Claims on Calibration1DAnalysis.run                                     *)
(***************************************************************************)
Returned == fit_run.raised = "none"
SeriesOf == 1..Len(fit_run.fits)
Converged(s) == {j \in 1..Len(fit_run.fits[s]) : fit_run.fits[s][j].kind = "converged"}
NotConverged(s) == {j \in 1..Len(fit_run.fits[s]) : fit_run.fits[s][j].kind = "RuntimeError"}
\* the entry of series s is a fit of its own data
OwnFit(s) == fit_run._result[s] # NoValue /\ fit_run._result[s].series = s

\* C12 (as claimed): the entry that run stores for a series is the converged
\* fit of lowest reduced chi-squared among the fits of that series, and is
\* never a fit of another series.
C12_BestFitPerSeries ==
    Returned =>
        \A s \in SeriesOf :
            /\ fit_run._result[s] # NoValue => fit_run._result[s].series = s
            /\ Converged(s) # {} =>
                   /\ OwnFit(s)
                   /\ \A j \in Converged(s) :
                          fit_run._result[s].chisq <= fit_run.fits[s][j].chisq

\* C13 (as claimed): the entry that run stores for a series none of whose
\* fits converged is None, also after a series with a converged fit.
C13_NoFitIsNone ==
    Returned =>
        \A s \in SeriesOf : Converged(s) = {} => fit_run._result[s] = NoValue

\* C20 (as claimed): when fits fail to converge, run still returns, every
\* initial guess of every series has been fitted, and a series with a
\* converged fit after a failed one has that series' converged fit as entry.
C20_FailureDoesNotAbort ==
    (\A s \in SeriesOf : Converged(s) \cup NotConverged(s) = DOMAIN fit_run.fits[s]) =>
        /\ Returned
        /\ fit_run.fitted = {<<s, j>> : s \in SeriesOf, j \in 1..MaxGuesses}
                                \cap {p \in SeriesOf \X (1..MaxGuesses) :
                                          p[2] <= Len(fit_run.fits[p[1]])}
        /\ \A s \in SeriesOf :
               (\E j \in NotConverged(s), k \in Converged(s) : j < k) => OwnFit(s)

(***************************************************************************)
(* Claims on the execution of an experiment                                *)
(***************************************************************************)
\* C14 (as claimed): no job is handed to backend.run with the raw measurement
\* level: execute fails before, when the chain holds no system kernel.
C14_RawLevelNotSubmitted == job.submitted => job.meas_level # "RAW"

\* C15: a define_pulse call whose pulse_shape is not a supported shape fails
\* with an error and leaves the parameter table as it was: no shape row and
\* no parameter row is added.
C15_UnknownShapeWritesNothing ==
    [][(last'.op = "define_pulse" /\ last'.pulse_shape \notin ParametricPulseShapes)
        => (last'.exc # "none" /\ parameter_collection' = parameter_collection)]_vars

\* an unsupported shape was refused for a registered gate while the table
\* already held rows
C15_Witness ==
    /\ last.op = "define_pulse"
    /\ last.pulse_shape \notin ParametricPulseShapes
    /\ last.exc = "Exception"
    /\ Len(parameter_collection) > 0

\* C18: the table holds at most one row named 'shape' for each
\* (channel, pulse_name, scope_id, calibration_group).
C18_ShapeDefinedOnce ==
    \A i, j \in 1..Len(parameter_collection) :
        (/\ parameter_collection[i].name = "shape"
         /\ parameter_collection[j].name = "shape"
         /\ parameter_collection[i].channel = parameter_collection[j].channel
         /\ parameter_collection[i].pulse_name = parameter_collection[j].pulse_name
         /\ parameter_collection[i].scope_id = parameter_collection[j].scope_id
         /\ parameter_collection[i].calibration_group
                = parameter_collection[j].calibration_group)
        => i = j


\* the full name of parameter pname of a Play instruction, and the value
\* get_parameter returns for it from the table
FullNameOf(play, pname) ==
    get_full_name(pname, play.name[1], play.name[2], play.name[3], play.calibration_group)
StoredValueOf(play, pname) ==
    get_parameter(parameter_collection, pname, play.name[1], play.name[2], play.name[3],
                  play.calibration_group)
Symbolic(play, pname) == "symbol" \in DOMAIN play.kwargs[pname]

C19_CollisionHandlingEnds == scope_outcome.kind # "never returns"


\* the chain holds a SystemKernel, and a SystemDiscriminator after it
HasKernel == \E i \in 1..Len(root_node) : root_node[i].class = "SystemKernel"
DiscriminatorDownstream ==
    \E i, j \in 1..Len(root_node) :
        /\ i < j
        /\ root_node[i].class = "SystemKernel"
        /\ root_node[j].class = "SystemDiscriminator"
HasDiscriminator == \E i \in 1..Len(root_node) : root_node[i].class = "SystemDiscriminator"

\* the step is a meas_level call on a chain that is not empty
MeasLevelCall == root_node # <<>> /\ UNCHANGED <<chainVars, job, shots>>

\* C21: for a non-empty chain meas_level returns the classified
\* level exactly when the chain has a system kernel with a system
\* discriminator downstream, the kerneled level exactly when it has a system
\* kernel and no discriminator, and in every other case the call ends in an
\* error and not in a level.
C21_LevelNegotiation ==
    [][MeasLevelCall =>
          /\ requested_level'.level = "CLASSIFIED" <=> DiscriminatorDownstream
          /\ requested_level'.level = "KERNELED" <=> (HasKernel /\ ~ HasDiscriminator)
          /\ ~ DiscriminatorDownstream /\ ~ (HasKernel /\ ~ HasDiscriminator)
                 => (requested_level'.raised # "none" /\ requested_level'.level = None)]_vars

\* C22: in every compiled program the pulse parameters duration and width
\* that have a stored value are bound to it, also when their full names are
\* in the caller's free-parameter set.
C22_DurationWidthBound ==
    schedule_outcome.raised = "none" =>
        \A k \in 1..Len(schedule_outcome.plays) :
            LET play == schedule_outcome.plays[k]
            IN  \A pname \in DOMAIN play.kwargs \cap {"duration", "width"} :
                    StoredValueOf(play, pname) # NoValue
                        => play.kwargs[pname] = StoredValueOf(play, pname)

\* C26: every pulse of a schedule compiled by get_schedule with a calibration
\* group, the pulses of referenced programs included, takes its parameters
\* from that group.
C26_GroupKeptAcrossReferences ==
    schedule_outcome.raised = "none" =>
        \A k \in 1..Len(schedule_outcome.plays) :
            schedule_outcome.plays[k].calibration_group = schedule_outcome.calibration_group


(***************************************************************************)
(* Claims on parse                                                         *)
(***************************************************************************)
\* the context enters less the context exits among the first n tokens
RECURSIVE OpenContexts(_, _)
OpenContexts(tokens, n) ==
    IF n = 0 THEN 0
    ELSE OpenContexts(tokens, n - 1)
         + (IF tokens[n].type = "CONTEXT_ENTER" THEN 1
            ELSE IF tokens[n].type = "CONTEXT_EXIT" THEN -1 ELSE 0)

StrayExit(tokens) == \E n \in 1..Len(tokens) : OpenContexts(tokens, n) < 0
Balanced(tokens) == ~ StrayExit(tokens) /\ OpenContexts(tokens, Len(tokens)) = 0

\* the token a leaf was made of
TokenOfLeaf(node) ==
    IF node.class = "PulseInst"
    THEN [type |-> "PULSE", pos |-> None, name |-> node.name, channel |-> node.channel,
          qubits |-> None]
    ELSE [type |-> "REFERENCE", pos |-> None, name |-> node.name, channel |-> None,
          qubits |-> IF node.qubits = <<0>> THEN "0"
                     ELSE IF node.qubits = <<1>> THEN "1" ELSE "0,1"]

\* the bracket expression of the children of a block from position i on: each
\* leaf as its token, each block as its context enter, the expression of its
\* children and a context exit
RECURSIVE Brackets(_, _)
Brackets(children, i) ==
    IF i > Len(children) THEN <<>>
    ELSE (IF children[i].class = "ScheduleBlock"
          THEN <<[type |-> "CONTEXT_ENTER", pos |-> children[i].context_type, name |-> None,
                  channel |-> None, qubits |-> None]>>
               \o Brackets(children[i].children, 1)
               \o <<[type |-> "CONTEXT_EXIT", pos |-> None, name |-> None,
                     channel |-> None, qubits |-> None]>>
          ELSE <<TokenOfLeaf(children[i])>>)
         \o Brackets(children, i + 1)

\* the leaves below the children of a block from position i on, depth first
RECURSIVE Leaves(_, _)
Leaves(children, i) ==
    IF i > Len(children) THEN <<>>
    ELSE (IF children[i].class = "ScheduleBlock"
          THEN Leaves(children[i].children, 1)
          ELSE <<children[i]>>)
         \o Leaves(children, i + 1)

\* the leaves that the leaf tokens of a source stand for, in source order
RECURSIVE LeafTokens(_, _)
LeafTokens(tokens, i) ==
    IF i > Len(tokens) THEN <<>>
    ELSE (IF tokens[i].type \in {"PULSE", "REFERENCE", "FRAME"}
          THEN <<_parse_node(tokens[i])>> ELSE <<>>)
         \o LeafTokens(tokens, i + 1)

\* C23: parse raises, and returns no tree, whenever a context exit is read
\* while no context is open.
C23_StrayExitRejected ==
    (parse_outcome.called /\ StrayExit(parse_outcome.tokens))
        => (parse_outcome.raised # "none" /\ parse_outcome.tree = None)

\* a source was rejected whose stray exit follows a context that was opened
\* and closed
C23_Witness ==
    /\ parse_outcome.called
    /\ parse_outcome.raised = "Exception"
    /\ Len(parse_outcome.tokens) >= 3
    /\ parse_outcome.tokens[1].type = "CONTEXT_ENTER"
    /\ StrayExit(parse_outcome.tokens)

\* C24: for a balanced source parse returns a left-aligned root block whose
\* tree mirrors the nesting of the brackets: written back as brackets, with
\* each block under the alignment of its context enter and the children in
\* order, the tree is the source.
C24_TreeMirrorsNesting ==
    (parse_outcome.called /\ Balanced(parse_outcome.tokens))
        => /\ parse_outcome.raised = "none"
           /\ parse_outcome.tree.class = "ScheduleBlock"
           /\ parse_outcome.tree.context_type = "left"
           /\ Brackets(parse_outcome.tree.children, 1) = parse_outcome.tokens

\* a tree with a sequential context inside a right-aligned context
C24_Witness ==
    /\ parse_outcome.called
    /\ parse_outcome.raised = "none"
    /\ Balanced(parse_outcome.tokens)
    /\ Len(parse_outcome.tree.children) = 1
    /\ parse_outcome.tree.children[1].class = "ScheduleBlock"
    /\ parse_outcome.tree.children[1].context_type = "right"
    /\ Len(parse_outcome.tree.children[1].children) = 1
    /\ parse_outcome.tree.children[1].children[1].class = "ScheduleBlock"
    /\ parse_outcome.tree.children[1].children[1].context_type = "seq"

\* C25: when parse returns a tree, the leaves of the tree are the leaf tokens
\* of the source, each once and in source order.
C25_NoLeafLost ==
    (parse_outcome.called /\ parse_outcome.raised = "none")
        => Leaves(parse_outcome.tree.children, 1) = LeafTokens(parse_outcome.tokens, 1)


(***************************************************************************)
(* Claims on reads after writes of the parameter table                     *)
(***************************************************************************)
\* two rows of one (name, pulse, channel, scope, calibration group)
SameKey(r, q) ==
    /\ r.name = q.name
    /\ r.pulse_name = q.pulse_name
    /\ r.channel = q.channel
    /\ r.scope_id = q.scope_id
    /\ r.calibration_group = q.calibration_group

\* get_parameter on a table for the key of a row
GetKeyOf(rows, r) ==
    get_parameter(rows, r.name, r.pulse_name, r.channel, r.scope_id, r.calibration_group)

\* C28: right after a set_parameter call with a non-FAIL status and a
\* timestamp not earlier than that of any existing row of the key,
\* get_parameter for the key returns the value written (as a read reports
\* it), also when an existing non-FAIL row of the key has the same timestamp.
C28_ReadYourWrites ==
    [][(/\ last'.op = "set_parameter"
        /\ last'.exc = "none"
        /\ Len(parameter_collection') > Len(parameter_collection))
        => LET written == parameter_collection'[Len(parameter_collection')]
           IN  (/\ written.validation # "fail"
                /\ \A i \in 1..Len(parameter_collection) :
                       SameKey(parameter_collection[i], written)
                           => parameter_collection[i].timestamp <= written.timestamp)
               => GetKeyOf(parameter_collection', written)
                      = AsRead([parameter_name |-> written.name], written.value)]_vars

(***************************************************************************)
(* Claims on retroactive validation                                        *)
(***************************************************************************)
\* get_parameter on a table for a key under a scope
GetOn(rows, k, scope_id) ==
    get_parameter(rows, k.parameter_name, k.pulse_name, k.channel, scope_id, k.calibration_group)

\* the rows a read of a key under a scope chooses from: those of the scope,
\* or those of the global scope when the scope has none
RowsRead(rows, k, scope_id) ==
    LET Of(s) == {j \in 1..Len(rows) :
                     /\ rows[j].name = k.parameter_name
                     /\ rows[j].pulse_name = k.pulse_name
                     /\ rows[j].channel = k.channel
                     /\ rows[j].calibration_group = k.calibration_group
                     /\ rows[j].scope_id = s}
    IN  IF Of(scope_id) = {} THEN Of("global") ELSE Of(scope_id)

\* row i is the one whose value a read of the key under the scope returns
ReadsRow(rows, k, scope_id, i) ==
    LET ok == {j \in RowsRead(rows, k, scope_id) : rows[j].validation # "fail"}
    IN  /\ i \in ok
        /\ \A j \in ok : \/ rows[j].timestamp < rows[i].timestamp
                         \/ rows[j].timestamp = rows[i].timestamp /\ i <= j

\* the key a read must name to reach a row
KeyOfRow(r) ==
    [parameter_name |-> r.name, pulse_name |-> r.pulse_name, channel |-> r.channel,
     calibration_group |-> r.calibration_group]

\* the latest non-FAIL rows of the key and scope of row i, row i left out
RemainingLatest(rows, i) ==
    LET rem == {j \in (1..Len(rows)) \ {i} :
                   SameKey(rows[j], rows[i]) /\ rows[j].validation # "fail"}
    IN  {j \in rem : \A m \in rem : rows[m].timestamp <= rows[j].timestamp}

\* the read of key k under a scope after row i of the table 'rows' was given
\* a status, 'after' being the table that the call left
C27_ReadAfter(rows, after, i, k, scope_id, status) ==
    IF status = "fail"
    THEN ReadsRow(rows, k, scope_id, i)
             => \A latest \in {RemainingLatest(rows, i)} :
                    IF latest = {}
                    THEN GetOn(after, k, scope_id) = NoValue
                    ELSE \E j \in latest : GetOn(after, k, scope_id) = AsRead(k, rows[j].value)
    ELSE \A v0 \in {"pass", "none"} :
             \A prior \in {[rows EXCEPT ![i].validation = v0]} :
                 ReadsRow(prior, k, scope_id, i)
                     => GetOn(after, k, scope_id) = AsRead(k, rows[i].value)

\* C27: a successful set_validation_status on the index of a record r changes
\* the validation of r only; with 'fail', every read of r's key that returned r's value
\* now returns the value of a latest remaining non-FAIL record of r's key and
\* scope, or None when there is none; with 'pass' or 'none', every read that
\* returns r's value while r is not FAIL returns r's value (values as a read
\* reports them).
C27_RetroactiveValidation ==
    [][(last'.op = "set_validation_status" /\ last'.exc = "none")
        => \A i \in 1..Len(parameter_collection) :
               parameter_collection[i].index = last'.data_index[1]
                   => \A k \in {KeyOfRow(parameter_collection[i])} :
                          /\ parameter_collection'
                                 = [parameter_collection EXCEPT ![i].validation = last'.status]
                          /\ \A scope_id \in ScopeIds :
                                 C27_ReadAfter(parameter_collection, parameter_collection', i, k, scope_id, last'.status)]_vars

\* a record that would be read has just been marked FAIL while an older
\* non-FAIL record of its key holds another value, which is now read
C27_Witness ==
    /\ last.op = "set_validation_status"
    /\ last.exc = "none"
    /\ last.status = "fail"
    /\ \E i, j \in 1..Len(table) :
           /\ table[i].index = last.data_index[1]
           /\ table[i].validation = "fail"
           /\ j # i
           /\ SameKey(table[j], table[i])
           /\ table[j].validation # "fail"
           /\ table[j].value # table[i].value
           /\ table[j].timestamp < table[i].timestamp
           /\ \E k \in LookupKeys :
                  /\ ReadsRow([table EXCEPT ![i].validation = "none"], k, table[i].scope_id, i)
                  /\ Get(k, table[i].scope_id) = AsRead(k, table[j].value)

(***************************************************************************)
(* Claims on failed calls of define_pulse                                  *)
(***************************************************************************)
\* C29: a define_pulse call that raises leaves the parameter table as it was
\* before the call.
C29_AllOrNothing ==
    [][(last'.op = "define_pulse" /\ last'.exc # "none")
        => parameter_collection' = parameter_collection]_vars

(***************************************************************************)
(* Claims on rejected appends to the chain                                 *)
(***************************************************************************)
\* the last node of a chain is an allowed predecessor of a node
TailAllows(chain, node) ==
    chain # <<>> /\ chain[Len(chain)].class \in prev_node(node.class)

\* C30: an append that raises leaves the chain as it was, and right after a
\* rejected append an append of a node that the last node allows attaches the
\* node directly after that last node.
C30_RejectedAppendKeepsChain ==
    [][/\ chain_last'.raised # "none" => root_node' = root_node
       /\ (chain_last.raised # "none" /\ TailAllows(root_node, chain_last'.node))
              => /\ chain_last'.raised = "none"
                 /\ root_node' = Append(root_node, chain_last'.node)]_vars

\* an append was rejected because the last node of a chain of two nodes is not
\* an allowed predecessor of the node, which has allowed predecessors
C30_Witness ==
    /\ chain_last.raised = "CalExpError"
    /\ Len(root_node) >= 2
    /\ prev_node(chain_last.node.class) # {}
    /\ ~ TailAllows(root_node, chain_last.node)
    /\ \E class \in NodeClasses : TailAllows(root_node, [class |-> class])


====
